---- MODULE Spec2Model ----
(***************************************************************************)
(* A model of src/pacman.rs of paccat: the session initializer             *)
(* (alpm_init), the package resolver (get_dbpkg), the signature verifier   *)
(* (verify_packages), the download locator (get_download_url) and the      *)
(* download reporter (download_cb).                                        *)
(*                                                                         *)
(* Strings the code computes on (targets, file names, URLs) are sequences  *)
(* of one-character strings, so that splitting, suffix tests and           *)
(* concatenation are computed and not assumed.  Calls into libalpm and     *)
(* alpm_utils are modelled by what the library does at the call site.      *)
(***************************************************************************)
EXTENDS Integers, Sequences, FiniteSets, TLC

VARIABLES
    pc,                     \* position of the running function
    result,                 \* its return value, Pending while it runs
    stderr,                 \* lines written with eprintln!
    \* ---- verify_packages
    siglevel,               \* the siglevel parameter (trust policy)
    remote_file_siglevel,   \* alpm.remote_file_siglevel()
    pkgfiles,               \* the archives on disk: name -> state of its signature
    files,                  \* the files parameter
    loaded,                 \* positions of files passed to pkg_load, in order
    checked,                \* positions of files passed to check_signature, in order
    \* ---- alpm_init
    args,                   \* crate::args::Args as far as alpm_init reads it
    tempdir,                \* std::env::temp_dir()
    dirs,                   \* directories existing on disk
    repos,                  \* the repositories of the configuration, in order
    dbvalid,                \* sync database name -> would is_valid() succeed
    conf,                   \* pacmanconf::Config
    alpm,                   \* the Alpm handle
    synccalls,              \* calls of syncdbs_mut().update, in order
    validated,              \* calls of db.is_valid(), in order
    \* ---- get_dbpkg
    localdb,                \* names of the packages of alpm.localdb()
    syncdbs,                \* alpm.syncdbs() as get_dbpkg sees it
    target_str,             \* the target_str parameter
    local_only,             \* the localdb parameter
    \* ---- get_download_url
    pkg,                    \* the pkg parameter
    \* ---- download_cb
    file,                   \* the file parameter
    event                   \* the event parameter

vars == <<pc, result, stderr, siglevel, remote_file_siglevel, pkgfiles, files,
          loaded, checked, args, tempdir, dirs, repos, dbvalid, conf, alpm,
          synccalls, validated, localdb, syncdbs, target_str, local_only, pkg,
          file, event>>

verifyVars == <<siglevel, remote_file_siglevel, pkgfiles, files, loaded, checked>>
initVars == <<args, tempdir, dirs, repos, dbvalid, conf, alpm, synccalls, validated>>
dbpkgVars == <<localdb, syncdbs, target_str, local_only>>
cbVars == <<file, event>>

None == "None"

\* the value of result while the function runs
Pending == [pending |-> TRUE]

(***************************************************************************)
(* Helpers.                                                                *)
(***************************************************************************)
SeqsUpTo(S, n) == UNION {[1..k -> S] : k \in 0..n}

Range(s) == {s[k] : k \in 1..Len(s)}

Ok(v) == [ok |-> TRUE, value |-> v]

\* anyhow::Error: the underlying error and the context added with with_context
Err(e, ctx) == [ok |-> FALSE, error |-> e, context |-> ctx]

(***************************************************************************)
(* Variables of the functions that are not running.                        *)
(***************************************************************************)
IdleVerify ==
    /\ siglevel = {} /\ remote_file_siglevel = {}
    /\ pkgfiles = <<>> /\ files = <<>> /\ loaded = <<>> /\ checked = <<>>

IdleAlpmInit ==
    /\ args = None /\ tempdir = None /\ dirs = {} /\ repos = <<>>
    /\ dbvalid = <<>> /\ conf = None /\ alpm = None
    /\ synccalls = <<>> /\ validated = <<>>

IdleDbpkg ==
    /\ localdb = {} /\ syncdbs = <<>> /\ target_str = <<>> /\ local_only = FALSE

IdleUrl == pkg = None

IdleCb == file = <<>> /\ event = None

(***************************************************************************)
(* verify_packages (src/pacman.rs 69-91).                                  *)
(***************************************************************************)
MaxFiles == 3

\* the bits of alpm::SigLevel the function and pkg_load read
SigLevelBits == {"PACKAGE", "PACKAGE_OPTIONAL", "DATABASE"}

FileNames == {"a.pkg.tar.zst", "b.pkg.tar.zst"}

\* an archive on disk: with a good detached signature, with none, with a bad
\* one, or not readable as an archive at all
FileKinds == {"signed", "unsigned", "badsig", "unreadable"}

\* a slip: any bit of the policy takes the slow path
RequiresPackageSigAnyBit(level) == level # {}

\* siglevel.contains(SigLevel::PACKAGE), line 73
RequiresPackageSig(level) == "PACKAGE" \in level

\* siglevel.contains(SigLevel::PACKAGE_OPTIONAL), line 82
ToleratesMissing(level) == "PACKAGE_OPTIONAL" \in level

\* alpm.pkg_load(file, false, level), line 79: libalpm validates the archive
\* under `level` before it loads it, and the call fails when the archive is
\* unreadable or that validation fails
PkgLoad(kind, level) ==
    IF kind = "unreadable" THEN "PkgOpen"
    ELSE IF "PACKAGE" \in level /\ kind = "unsigned"
                                /\ "PACKAGE_OPTIONAL" \notin level
         THEN "PkgMissingSig"
    ELSE IF "PACKAGE" \in level /\ kind = "badsig" THEN "PkgInvalidSig"
    ELSE "Ok"

\* LoadedPackage::check_signature(), line 80
CheckSignature(kind) ==
    IF kind = "unsigned" THEN "SigMissing"
    ELSE IF kind = "badsig" THEN "SigInvalid"
    ELSE "Ok"

VerifyInit ==
    /\ siglevel \in SUBSET SigLevelBits
    /\ remote_file_siglevel \in SUBSET SigLevelBits
    /\ pkgfiles \in [FileNames -> FileKinds]
    /\ files \in SeqsUpTo(FileNames, MaxFiles)
    /\ loaded = <<>> /\ checked = <<>>
    /\ pc = "verify_packages" /\ result = Pending /\ stderr = <<>>
    /\ IdleAlpmInit /\ IdleDbpkg /\ IdleUrl /\ IdleCb

\* lines 73-75: the fast path, or entering the loop
VerifyPackagesEntry ==
    /\ pc = "verify_packages"
    /\ IF ~RequiresPackageSig(siglevel)
       THEN /\ pc' = "done"
            /\ result' = Ok(<<>>)
       ELSE /\ pc' = "for_file"
            /\ result' = result
    /\ UNCHANGED <<stderr, verifyVars, initVars, dbpkgVars, pkg, cbVars>>

\* lines 77-88: one iteration of the loop
VerifyPackagesFile ==
    /\ pc = "for_file"
    /\ Len(loaded) < Len(files)
    /\ LET i == Len(loaded) + 1
           kind == pkgfiles[files[i]]
           l == PkgLoad(kind, remote_file_siglevel)
           e == CheckSignature(kind)
       IN /\ loaded' = Append(loaded, i)
          /\ IF l # "Ok"
             THEN \* pkg_load(..)? returns the error as it is
                  /\ checked' = checked
                  /\ pc' = "done"
                  /\ result' = Err(l, <<>>)
             ELSE /\ checked' = Append(checked, i)
                  /\ IF e = "Ok" \/ (e = "SigMissing" /\ ToleratesMissing(siglevel))
                     THEN /\ pc' = "for_file"
                          /\ result' = result
                     ELSE /\ pc' = "done"
                          /\ result' = Err(e, <<"failed to verify package ", files[i]>>)
    /\ UNCHANGED <<stderr, siglevel, remote_file_siglevel, pkgfiles, files,
                   initVars, dbpkgVars, pkg, cbVars>>

\* line 90: the loop is exhausted
VerifyPackagesReturn ==
    /\ pc = "for_file"
    /\ Len(loaded) = Len(files)
    /\ pc' = "done"
    /\ result' = Ok(<<>>)
    /\ UNCHANGED <<stderr, verifyVars, initVars, dbpkgVars, pkg, cbVars>>

VerifyNext == VerifyPackagesEntry \/ VerifyPackagesFile \/ VerifyPackagesReturn

SpecVerify == VerifyInit /\ [][VerifyNext]_vars

PolicyRequired == "PACKAGE" \in siglevel
PolicyOptional == "PACKAGE_OPTIONAL" \in siglevel

Positions(n) == [k \in 1..n |-> k]

\* C1: when the trust policy lacks the package-signature bit, verify_packages
\* over a non-empty list loads no file, checks no signature and returns Ok.
C1_FastPathNoIO ==
    (~PolicyRequired /\ files # <<>>) =>
        /\ loaded = <<>>
        /\ checked = <<>>
        /\ pc # "for_file"
        /\ pc = "done" => result = Ok(<<>>)

\* the fast path was taken over a list holding a file that would not verify
C1_Witness ==
    /\ pc = "done" /\ ~PolicyRequired /\ Len(files) >= 2
    /\ \E i \in 1..Len(files) : pkgfiles[files[i]] \in {"unsigned", "badsig"}
    /\ siglevel # {}
    /\ result = Ok(<<>>)

\* C2: under a policy with the package and the optional bit, a list whose
\* files are signed or unsigned, one at least unsigned, is checked to its end
\* and the call succeeds, whatever remote_file_siglevel is.
C2_OptionalToleratesMissing ==
    ( /\ pc = "done" /\ PolicyRequired /\ PolicyOptional
      /\ \A i \in 1..Len(files) : pkgfiles[files[i]] \in {"signed", "unsigned"}
      /\ \E i \in 1..Len(files) : pkgfiles[files[i]] = "unsigned" ) =>
        /\ result = Ok(<<>>)
        /\ checked = Positions(Len(files))

\* C3: under a policy with the package bit and without the optional bit, the
\* first unsigned file (the files before it being signed) makes the call fail
\* with an error naming that file, and no later file is loaded.
C3_RequiredMissingNamesFile ==
    \A i \in 1..Len(files) :
        ( /\ pc = "done" /\ PolicyRequired /\ ~PolicyOptional
          /\ pkgfiles[files[i]] = "unsigned"
          /\ \A j \in 1..(i - 1) : pkgfiles[files[j]] = "signed" ) =>
            /\ ~result.ok
            /\ result.context = <<"failed to verify package ", files[i]>>
            /\ loaded = Positions(i)

(***************************************************************************)
(* get_download_url (src/pacman.rs 93-102).                                *)
(***************************************************************************)
MaxServers == 2
MaxUrlLen == 2

UrlChars == {"m", "/"}

UrlStrs == SeqsUpTo(UrlChars, MaxUrlLen)

\* a Package: pkg.db() as an Option (<<>> is None, <<db>> is Some(db)) and
\* pkg.filename()
Packages ==
    [db : {<<>>} \cup {<<d>> : d \in [servers : SeqsUpTo(UrlStrs, MaxServers)]},
     filename : UrlStrs]

\* a slip: the last server of the list instead of the first
LastServer(servers) ==
    IF servers = <<>> THEN Err("ServerNone", <<>>) ELSE Ok(servers[Len(servers)])

\* .servers().first().ok_or(alpm::Error::ServerNone), lines 97-99
FirstServer(servers) ==
    IF servers = <<>> THEN Err("ServerNone", <<>>) ELSE Ok(Head(servers))

\* format!("{}/{}", server, pkg.filename()), line 100
FormatUrl(server, filename) == server \o <<"/">> \o filename

UrlInit ==
    /\ pkg \in Packages
    /\ pc = "get_download_url" /\ result = Pending /\ stderr = <<>>
    /\ IdleVerify /\ IdleAlpmInit /\ IdleDbpkg /\ IdleCb

\* pkg.db().unwrap() on a package without a database: the thread panics
GetDownloadUrlPanic ==
    /\ pc = "get_download_url"
    /\ pkg.db = <<>>
    /\ pc' = "panicked"
    /\ UNCHANGED <<result, stderr, verifyVars, initVars, dbpkgVars, pkg, cbVars>>

GetDownloadUrl ==
    /\ pc = "get_download_url"
    /\ pkg.db # <<>>
    /\ LET server == FirstServer(pkg.db[1].servers)
       IN result' = IF ~server.ok THEN server
                    ELSE Ok(FormatUrl(server.value, pkg.filename))
    /\ pc' = "done"
    /\ UNCHANGED <<stderr, verifyVars, initVars, dbpkgVars, pkg, cbVars>>

UrlNext == GetDownloadUrlPanic \/ GetDownloadUrl

SpecDownloadUrl == UrlInit /\ [][UrlNext]_vars

\* C6: on a package whose database has no server get_download_url fails with
\* ServerNone; otherwise the URL is the first server, one '/' and the filename,
\* and it is the URL the same package would get with only its first server.
C6_FirstServerUrl ==
    (pc = "done") =>
        /\ pkg.db[1].servers = <<>> => result = Err("ServerNone", <<>>)
        /\ pkg.db[1].servers # <<>> =>
             /\ result.ok
             /\ Len(result.value) = Len(pkg.db[1].servers[1]) + 1 + Len(pkg.filename)
             /\ SubSeq(result.value, 1, Len(pkg.db[1].servers[1])) = pkg.db[1].servers[1]
             /\ result.value[Len(pkg.db[1].servers[1]) + 1] = "/"
             /\ SubSeq(result.value, Len(pkg.db[1].servers[1]) + 2, Len(result.value))
                    = pkg.filename

\* a URL was built for a package whose database has two different servers
C6_Witness ==
    /\ pc = "done" /\ result.ok
    /\ Len(pkg.db[1].servers) = 2
    /\ pkg.db[1].servers[1] = <<"m">> /\ pkg.db[1].servers[2] = <<"m", "m">>
    /\ pkg.filename = <<"m">>
    /\ result.value = <<"m", "/", "m">>

(***************************************************************************)
(* download_cb (src/pacman.rs 104-114).                                    *)
(***************************************************************************)
MaxFileLen == 5

CbChars == {"p", ".", "s", "i", "g"}

\* alpm::DownloadEvent and, for Completed, its DownloadResult
DownloadEvents ==
    {[kind |-> "Init"], [kind |-> "Progress"], [kind |-> "Retry"]}
        \cup [kind : {"Completed"}, result : {"Success", "UpToDate", "Failed"}]

SigSuffix == <<".", "s", "i", "g">>

\* a slip: the suffix is looked for at the start of the name
StartsWith(s, suffix) ==
    /\ Len(s) >= Len(suffix)
    /\ SubSeq(s, 1, Len(suffix)) = suffix

\* str::ends_with, line 105
EndsWith(s, suffix) ==
    /\ Len(s) >= Len(suffix)
    /\ SubSeq(s, Len(s) - Len(suffix) + 1, Len(s)) = suffix

\* the match of lines 109-113: the text after "{}"
Outcome(r) ==
    CASE r = "Success" -> " downloaded"
      [] r = "UpToDate" -> " is up to date"
      [] r = "Failed" -> " failed to download"

CbInit ==
    /\ file \in SeqsUpTo(CbChars, MaxFileLen)
    /\ event \in DownloadEvents
    /\ pc = "download_cb" /\ result = Pending /\ stderr = <<>>
    /\ IdleVerify /\ IdleAlpmInit /\ IdleDbpkg /\ IdleUrl

DownloadCb ==
    /\ pc = "download_cb"
    /\ stderr' = IF EndsWith(file, SigSuffix) THEN stderr
                 ELSE IF event.kind = "Completed"
                      THEN Append(stderr, <<file, Outcome(event.result)>>)
                      ELSE stderr
    /\ pc' = "done"
    /\ UNCHANGED <<result, verifyVars, initVars, dbpkgVars, pkg, cbVars>>

CbNext == DownloadCb

SpecDownloadCb == CbInit /\ [][CbNext]_vars

IsSigName ==
    /\ Len(file) >= 4
    /\ file[Len(file) - 3] = "." /\ file[Len(file) - 2] = "s"
    /\ file[Len(file) - 1] = "i" /\ file[Len(file)] = "g"

\* C9: download_cb writes nothing for a file named *.sig and nothing for an
\* event other than Completed; for a Completed event on another file it
\* writes exactly one line, "<file> downloaded", "<file> is up to date" or
\* "<file> failed to download" after the result.
C9_DownloadLines ==
    (pc = "done") =>
        /\ (IsSigName \/ event.kind # "Completed") => stderr = <<>>
        /\ (~IsSigName /\ event.kind = "Completed") =>
             /\ Len(stderr) = 1
             /\ event.result = "Success" => stderr[1] = <<file, " downloaded">>
             /\ event.result = "UpToDate" => stderr[1] = <<file, " is up to date">>
             /\ event.result = "Failed" => stderr[1] = <<file, " failed to download">>

\* a Completed event on p.sig was reported with no line
C9_Witness ==
    /\ pc = "done"
    /\ file = <<"p", ".", "s", "i", "g">>
    /\ event = [kind |-> "Completed", result |-> "Success"]
    /\ stderr = <<>>

(***************************************************************************)
(* get_dbpkg (src/pacman.rs 58-67).                                        *)
(***************************************************************************)
MaxPkgs == 2

PkgNames == {<<"a">>, <<"b">>, <<"c">>}

RepoNames == {<<"x">>, <<"y">>}

\* a package of a sync database: its name and the names it provides
PkgRecords ==
    {r \in [name : PkgNames, provides : {{}, {<<"a">>}}] : r.name \notin r.provides}

\* the package cache of one database: no two packages of one name
DbContents ==
    {c \in SeqsUpTo(PkgRecords, MaxPkgs) :
        \A j, k \in 1..Len(c) : c[j].name = c[k].name => j = k}

Dbs == [name : RepoNames, pkgs : DbContents]

\* the registered sync databases, in the order of the configuration
SyncDbLists ==
    {l \in SeqsUpTo(Dbs, Cardinality(RepoNames)) :
        \A j, k \in 1..Len(l) : l[j].name = l[k].name => j = k}

\* targets: a bare name, or a name qualified with a repository
TargetStrs ==
    PkgNames \cup {r \o <<"/">> \o <<"a">> : r \in RepoNames \cup {<<"w">>}}

Min(S) == CHOOSE k \in S : \A j \in S : k <= j

\* lexicographic order on <<database position, package position>>
Before(p, q) == p[1] < q[1] \/ (p[1] = q[1] /\ p[2] <= q[2])

First(S) == CHOOSE p \in S : \A q \in S : Before(p, q)

\* Targ::from(target_str), line 62: split at the first '/'
Targ(s) ==
    LET slashes == {k \in 1..Len(s) : s[k] = "/"}
    IN IF slashes = {} THEN [repo |-> <<>>, pkg |-> s]
       ELSE [repo |-> <<SubSeq(s, 1, Min(slashes) - 1)>>,
             pkg |-> SubSeq(s, Min(slashes) + 1, Len(s))]

\* a package satisfies a dependency by its name or by what it provides
Satisfies(p, dep) == p.name = dep \/ dep \in p.provides

Found(db, p) == <<[db |-> db.name, name |-> p.name]>>

\* db.pkgs().find_satisfier(dep): the first package of the list that satisfies
FindSatisfier(db, dep) ==
    LET hits == {k \in 1..Len(db.pkgs) : Satisfies(db.pkgs[k], dep)}
    IN IF hits = {} THEN <<>> ELSE Found(db, db.pkgs[Min(hits)])

\* a slip: the databases are scanned from the last to the first
FindDbsSatisfierReversed(dbs, dep, installed) ==
    LET literal == {i \in 1..Len(dbs) :
                       \E k \in 1..Len(dbs[i].pkgs) : dbs[i].pkgs[k].name = dep}
        last == CHOOSE i \in literal : \A j \in literal : j <= i
    IN IF literal = {} THEN <<>>
       ELSE <<[db |-> dbs[last].name, name |-> dep]>>

\* syncdbs().find_satisfier(dep): the package named dep of the first database
\* that has one; failing that the providers of dep in scan order, the first
\* installed one if any is installed, else the first
FindDbsSatisfier(dbs, dep, installed) ==
    LET literal == {i \in 1..Len(dbs) :
                       \E k \in 1..Len(dbs[i].pkgs) : dbs[i].pkgs[k].name = dep}
        providers == UNION {{<<i, k>> : k \in {k \in 1..Len(dbs[i].pkgs) :
                                        /\ dbs[i].pkgs[k].name # dep
                                        /\ dep \in dbs[i].pkgs[k].provides}} :
                            i \in 1..Len(dbs)}
        local == {p \in providers : dbs[p[1]].pkgs[p[2]].name \in installed}
        At(p) == Found(dbs[p[1]], dbs[p[1]].pkgs[p[2]])
    IN IF literal # {} THEN <<[db |-> dbs[Min(literal)].name, name |-> dep]>>
       ELSE IF local # {} THEN At(First(local))
       ELSE IF providers # {} THEN At(First(providers))
       ELSE <<>>

\* alpm.syncdbs().find_target_satisfier(target), line 63
FindTargetSatisfier(dbs, target, installed) ==
    IF target.repo # <<>>
    THEN LET named == {i \in 1..Len(dbs) : dbs[i].name = target.repo[1]}
         IN IF named = {} THEN <<>> ELSE FindSatisfier(dbs[Min(named)], target.pkg)
    ELSE FindDbsSatisfier(dbs, target.pkg, installed)

\* a slip: a name the local database lacks is looked up in the sync databases
LocalPkgOrSync(name) ==
    IF name \in localdb THEN <<[db |-> <<"local">>, name |-> name]>>
    ELSE FindTargetSatisfier(syncdbs, Targ(name), localdb)

\* alpm.localdb().pkg(target_str).ok(), line 60
LocalPkg(name) ==
    IF name \in localdb THEN <<[db |-> <<"local">>, name |-> name]>> ELSE <<>>

DbpkgInit ==
    /\ localdb \in SUBSET {<<"a">>, <<"c">>}
    /\ syncdbs \in SyncDbLists
    /\ target_str \in TargetStrs
    /\ local_only \in BOOLEAN
    /\ pc = "get_dbpkg" /\ result = Pending /\ stderr = <<>>
    /\ IdleVerify /\ IdleAlpmInit /\ IdleUrl /\ IdleCb

GetDbpkg ==
    /\ pc = "get_dbpkg"
    /\ LET found == IF local_only THEN LocalPkg(target_str)
                    ELSE FindTargetSatisfier(syncdbs, Targ(target_str), localdb)
       IN result' = IF found = <<>>
                    THEN Err("None", <<"could not find package: ", target_str>>)
                    ELSE Ok(found[1])
    /\ pc' = "done"
    /\ UNCHANGED <<stderr, verifyVars, initVars, dbpkgVars, pkg, cbVars>>

DbpkgNext == GetDbpkg

SpecGetDbpkg == DbpkgInit /\ [][DbpkgNext]_vars

\* C4: with localdb = true a target the local database lacks is not found,
\* with an error naming target_str, whatever the sync databases hold; a
\* package that is returned comes from the local database.
C4_LocalOnlyNeverRemote ==
    (pc = "done" /\ local_only) =>
        /\ target_str \notin localdb =>
             result = Err("None", <<"could not find package: ", target_str>>)
        /\ target_str \in localdb =>
             result = Ok([db |-> <<"local">>, name |-> target_str])

\* a local lookup failed for a name that a sync database holds
C4_Witness ==
    /\ pc = "done" /\ local_only /\ target_str \notin localdb
    /\ \E i \in 1..Len(syncdbs) : \E k \in 1..Len(syncdbs[i].pkgs) :
           syncdbs[i].pkgs[k].name = target_str
    /\ ~result.ok

\* positions of the databases the target may be resolved in
Eligible(t) ==
    {i \in 1..Len(syncdbs) : t.repo = <<>> \/ syncdbs[i].name = t.repo[1]}

HoldsLiteral(i, dep) ==
    \E k \in 1..Len(syncdbs[i].pkgs) : syncdbs[i].pkgs[k].name = dep

HoldsProvider(i, dep) ==
    \E k \in 1..Len(syncdbs[i].pkgs) :
        syncdbs[i].pkgs[k].name # dep /\ dep \in syncdbs[i].pkgs[k].provides

MaxRefresh == 2

RepoDbs == {"core", "extra"}

CacheOverride == "/cache"

NonUtf8 == "<non-utf8>"

\* std::env::temp_dir().join("paccat"), lines 37-38
TmpCacheDir(tmp) == tmp \o "/paccat"

\* a slip: the refresh is made only when it is to be forced
WantsRefreshForced(refresh) == refresh > 1

\* args.refresh > 0, line 45
WantsRefresh(refresh) == refresh > 0

\* args.refresh > 1, line 47
ForceRefresh(refresh) == refresh > 1

\* a slip: the outcome of the validity check is dropped
IsValidIgnored(db) == TRUE

\* db.is_valid(), line 51
IsValid(db) == dbvalid[db]

\* a slip: the override is dropped and the temporary directory is used
CacheDirTmpOnly(a, tmp) == TmpCacheDir(tmp)

\* the directory of lines 34-42: the override, else <temp dir>/paccat
CacheDir(a, tmp) == IF a.cachedir # None THEN a.cachedir ELSE TmpCacheDir(tmp)

AlpmInitInit ==
    /\ args \in [cachedir : {None, CacheOverride}, refresh : 0..MaxRefresh,
                 filedb : BOOLEAN, dbpath : {None, "/db"}]
    /\ tempdir \in {"/tmp", NonUtf8}
    /\ dirs \in SUBSET {CacheOverride, TmpCacheDir("/tmp")}
    /\ repos \in {l \in SeqsUpTo(RepoDbs, Cardinality(RepoDbs)) :
                     \A j, k \in 1..Len(l) : l[j] = l[k] => j = k}
    /\ dbvalid \in [RepoDbs -> BOOLEAN]
    /\ conf = None /\ alpm = None /\ synccalls = <<>> /\ validated = <<>>
    /\ pc = "alpm_init" /\ result = Pending /\ stderr = <<>>
    /\ IdleVerify /\ IdleDbpkg /\ IdleUrl /\ IdleCb

\* lines 11-15: load the configuration, apply the dbpath override
LoadConfig ==
    /\ pc = "alpm_init"
    /\ \E ok \in BOOLEAN :
        IF ok
        THEN /\ conf' = [root_dir |-> "/",
                         db_path |-> IF args.dbpath # None THEN args.dbpath
                                     ELSE "/var/lib/pacman/",
                         cache_dir |-> <<"/var/cache/pacman/pkg/">>,
                         repos |-> repos]
             /\ pc' = "Alpm::new"
             /\ result' = result
        ELSE /\ conf' = conf
             /\ pc' = "done"
             /\ result' = Err("ConfigError", <<>>)
    /\ UNCHANGED <<stderr, verifyVars, args, tempdir, dirs, repos, dbvalid, alpm,
                   synccalls, validated, dbpkgVars, pkg, cbVars>>

\* lines 16-22
AlpmNew ==
    /\ pc = "Alpm::new"
    /\ \E ok \in BOOLEAN :
        IF ok
        THEN /\ alpm' = [dbext |-> ".db", callbacks |-> {}, cachedirs |-> <<>>,
                         syncdbs |-> <<>>]
             /\ pc' = "set_callbacks"
             /\ result' = result
        ELSE /\ alpm' = alpm
             /\ pc' = "done"
             /\ result' = Err("InitError",
                              <<"failed to initialize alpm (root: ", conf.root_dir,
                                ", dbpath: ", conf.db_path, ")">>)
    /\ UNCHANGED <<stderr, verifyVars, args, tempdir, dirs, repos, dbvalid, conf,
                   synccalls, validated, dbpkgVars, pkg, cbVars>>

\* lines 24-30: the database extension and the three callbacks
SetCallbacks ==
    /\ pc = "set_callbacks"
    /\ alpm' = [alpm EXCEPT !.dbext = IF args.filedb THEN ".files" ELSE @,
                            !.callbacks = {"download_cb", "log_cb", "event_cb"}]
    /\ pc' = "configure_alpm"
    /\ UNCHANGED <<result, stderr, verifyVars, args, tempdir, dirs, repos, dbvalid,
                   conf, synccalls, validated, dbpkgVars, pkg, cbVars>>

\* line 32: alpm_utils::configure_alpm registers the cache directories and
\* the repositories of the configuration
ConfigureAlpm ==
    /\ pc = "configure_alpm"
    /\ \E ok \in BOOLEAN :
        IF ok
        THEN /\ alpm' = [alpm EXCEPT !.cachedirs = conf.cache_dir,
                                     !.syncdbs = conf.repos]
             /\ pc' = "add_cachedir"
             /\ result' = result
        ELSE /\ alpm' = alpm
             /\ pc' = "done"
             /\ result' = Err("ConfigureError", <<>>)
    /\ UNCHANGED <<stderr, verifyVars, args, tempdir, dirs, repos, dbvalid, conf,
                   synccalls, validated, dbpkgVars, pkg, cbVars>>

\* lines 34-43: add_cachedir registers the path and touches no directory
AddCachedir ==
    /\ pc = "add_cachedir"
    /\ \E ok \in BOOLEAN :
        IF args.cachedir = None /\ tempdir = NonUtf8
        THEN /\ alpm' = alpm
             /\ pc' = "done"
             /\ result' = Err("None", <<"tempdir is not a str">>)
        ELSE IF ok
        THEN /\ alpm' = [alpm EXCEPT !.cachedirs = Append(@, CacheDir(args, tempdir))]
             /\ pc' = "refresh"
             /\ result' = result
        ELSE /\ alpm' = alpm
             /\ pc' = "done"
             /\ result' = Err("CachedirError", <<>>)
    /\ UNCHANGED <<stderr, verifyVars, args, tempdir, dirs, repos, dbvalid, conf,
                   synccalls, validated, dbpkgVars, pkg, cbVars>>

\* lines 45-48: the refresh, which may change what is valid on disk
Refresh ==
    /\ pc = "refresh"
    /\ IF WantsRefresh(args.refresh)
       THEN \E ok \in BOOLEAN, after \in [RepoDbs -> BOOLEAN] :
            /\ stderr' = Append(stderr, <<"synchronising package databases...">>)
            /\ synccalls' = Append(synccalls,
                                   [force |-> ForceRefresh(args.refresh), ok |-> ok])
            /\ dbvalid' = after
            /\ IF ok
               THEN /\ pc' = "validate"
                    /\ result' = result
               ELSE /\ pc' = "done"
                    /\ result' = Err("SyncError", <<>>)
       ELSE /\ pc' = "validate"
            /\ UNCHANGED <<stderr, synccalls, dbvalid, result>>
    /\ UNCHANGED <<verifyVars, args, tempdir, dirs, repos, conf, alpm, validated,
                   dbpkgVars, pkg, cbVars>>

\* lines 50-53: one iteration of the loop over alpm.syncdbs()
ValidateDb ==
    /\ pc = "validate"
    /\ Len(validated) < Len(alpm.syncdbs)
    /\ LET db == alpm.syncdbs[Len(validated) + 1]
       IN /\ validated' = Append(validated, [db |-> db, ok |-> IsValid(db),
                                             syncs |-> Len(synccalls)])
          /\ IF IsValid(db)
             THEN /\ pc' = "validate"
                  /\ result' = result
             ELSE /\ pc' = "done"
                  /\ result' = Err("DbInvalid",
                                   <<"database ", db, alpm.dbext, " is not valid">>)
    /\ UNCHANGED <<stderr, verifyVars, args, tempdir, dirs, repos, dbvalid, conf,
                   alpm, synccalls, dbpkgVars, pkg, cbVars>>

\* line 55
AlpmInitReturn ==
    /\ pc = "validate"
    /\ Len(validated) = Len(alpm.syncdbs)
    /\ pc' = "done"
    /\ result' = Ok(alpm)
    /\ UNCHANGED <<stderr, verifyVars, initVars, dbpkgVars, pkg, cbVars>>

AlpmInitNext ==
    \/ LoadConfig \/ AlpmNew \/ SetCallbacks \/ ConfigureAlpm \/ AddCachedir
    \/ Refresh \/ ValidateDb \/ AlpmInitReturn

SpecAlpmInit == AlpmInitInit /\ [][AlpmInitNext]_vars

\* alpm_init has got past the refresh of lines 45-48
PastRefresh ==
    \/ pc = "validate"
    \/ pc = "done" /\ (result.ok \/ result.error \in {"SyncError", "DbInvalid"})

\* C7: alpm_init makes at most one synchronization; none when refresh = 0;
\* once past the refresh step exactly one, not forced when refresh = 1 and
\* forced when refresh >= 2; a failed synchronization makes alpm_init fail.
C7_RefreshCounter ==
    /\ Len(synccalls) <= 1
    /\ args.refresh = 0 => synccalls = <<>>
    /\ (PastRefresh /\ args.refresh = 1) =>
          (Len(synccalls) = 1 /\ ~synccalls[1].force)
    /\ (PastRefresh /\ args.refresh >= 2) =>
          (Len(synccalls) = 1 /\ synccalls[1].force)
    /\ \A k \in 1..Len(synccalls) :
          ~synccalls[k].ok => (pc = "done" /\ result = Err("SyncError", <<>>))

\* alpm_init succeeded after one forced synchronization
C7_Witness ==
    /\ pc = "done" /\ result.ok /\ args.refresh = 2
    /\ synccalls = <<[force |-> TRUE, ok |-> TRUE]>>

\* the registered sync databases that are not valid
Invalid == {k \in 1..Len(alpm.syncdbs) : ~dbvalid[alpm.syncdbs[k]]}

\* C8: when alpm_init returns a handle every registered sync database is
\* valid and was checked after the refresh, if there was one; when the
\* validity loop ran and a registered database is invalid, alpm_init returns
\* no handle but an error naming the first invalid database.
C8_ValidatedAfterRefresh ==
    /\ (pc = "done" /\ result.ok) =>
          /\ Invalid = {}
          /\ Len(validated) = Len(alpm.syncdbs)
          /\ \A k \in 1..Len(validated) :
                /\ validated[k].db = alpm.syncdbs[k]
                /\ validated[k].ok
                /\ validated[k].syncs = Len(synccalls)
                /\ args.refresh > 0 => validated[k].syncs = 1
    /\ (pc = "done" /\ validated # <<>> /\ Invalid # {}) =>
          /\ result = Err("DbInvalid",
                          <<"database ", alpm.syncdbs[Min(Invalid)], alpm.dbext,
                            " is not valid">>)
          /\ Len(validated) = Min(Invalid)

\* after a refresh that left the second of two databases invalid, alpm_init
\* failed and named it
C8_Witness ==
    /\ pc = "done" /\ ~result.ok /\ Len(synccalls) = 1
    /\ Len(alpm.syncdbs) = 2 /\ Invalid = {2}
    /\ result.context = <<"database ", alpm.syncdbs[2], ".files", " is not valid">>

Init == VerifyInit \/ UrlInit \/ CbInit \/ DbpkgInit \/ AlpmInitInit

Next == VerifyNext \/ UrlNext \/ CbNext \/ DbpkgNext \/ AlpmInitNext

Spec == Init /\ [][Next]_vars

====
